---------------------------- MODULE Spec2Model ----------------------------
(***************************************************************************)
(* A model of tinybus' EventBus (src/src/tinybus/base.py) and of the       *)
(* Message envelope (src/src/tinybus/models.py).                           *)
(*                                                                         *)
(* The bus runs on one asyncio event loop: everything a coroutine does     *)
(* between two suspension points is one atomic step.  Handlers and         *)
(* listeners are user code; the model lets every invocation choose what    *)
(* the user code does (return a value, raise, suspend, react to a          *)
(* cancellation) so that the bus is checked against every handler.         *)
(***************************************************************************)
EXTENDS Integers, Sequences, FiniteSets, Bags, TLC

(***************************************************************************)
(* Bounds of the model.                                                    *)
(***************************************************************************)
MaxInFlight == 1      \* request calls suspended in their handler at once
MaxListeners == 2     \* length of one topic's listener list
MaxPublishes == 1     \* publish calls in flight at once
MaxRegistrations == 3 \* length of one topic's listener list, without publishes
MaxConcurrent == 2    \* publish calls in flight at once on one topic
MaxTogether == 2      \* request calls suspended at once, next to a publish call

Addresses == {"a1", "a2"}
Topics == {"t1", "t2"}
Bodies == {"x", "y"}
Timeouts == {1}
RetryAttempts == {2}   \* set by a caller; without options it is the default, 0

(***************************************************************************)
(* Python values and types.  "None" is Python's None; "NoHint" is the      *)
(* absence of a return annotation (expected_return_type is None).          *)
(***************************************************************************)
None == "None"
NoHint == "NoHint"
Values == Bodies \cup {None, "n7"}

\* uuid.uuid4() returns a value no earlier call returned: the n-th call's value
\* is written n.
Uuid4(ncalls) == ncalls + 1

TypeOf(v) ==
  CASE v = None -> "NoneType"
    [] v = "n7" -> "int"
    [] OTHER    -> "str"

\* isinstance(v, t) raises TypeError for typing.Any ("typing.Any cannot be
\* used with isinstance()"), as it does for a parameterized generic
IsInstanceRaises(t) == t = "Any"

\* isinstance(v, t), for a class or a union of classes t
IsInstance(v, t) ==
  IF t = "str | None" THEN TypeOf(v) \in {"str", "NoneType"} ELSE TypeOf(v) = t

\* t.__name__ exists: classes have it, a types.UnionType (X | Y) has not
HasName(t) == t # "str | None"

\* DeliveryOptions.timeout's default
DefaultTimeout == 30

\* options = options or DeliveryOptions(); options.timeout
OptionsTimeout(options) ==
  IF options.given THEN options.timeout ELSE DefaultTimeout

\* DeliveryOptions.retry_attempts' default
DefaultRetryAttempts == 0

\* options = options or DeliveryOptions(); options.retry_attempts
OptionsRetryAttempts(options) ==
  IF options.given THEN options.retry_attempts ELSE DefaultRetryAttempts

\* the options argument of request: omitted, or
\* DeliveryOptions(timeout=t, retry_attempts=n)
DeliveryOptionsSet ==
  {[given |-> FALSE]}
    \cup {[given |-> TRUE, timeout |-> t, retry_attempts |-> n] :
            t \in Timeouts, n \in RetryAttempts}

(***************************************************************************)
(* Handlers.  A consumer handler is a function with an optional return     *)
(* annotation; get_type_hints(handler).get('return', None) reads it.       *)
(* h1 has no annotation, h2 is annotated -> str, h3 -> Any and             *)
(* h4 -> str | None.                                                       *)
(***************************************************************************)
Handlers == {"h1", "h2", "h3", "h4"}

\* Listeners: the functions registered with on().
EventHandlers == {"l1", "l2"}

ReturnHint(h) ==
  CASE h = "h1" -> NoHint
    [] h = "h2" -> "str"
    [] h = "h3" -> "Any"
    [] h = "h4" -> "str | None"

\* Exceptions user code raises.  "BaseException" stands for an exception
\* that derives from BaseException but not from Exception.
HandlerExcs == {"ValueError", "TimeoutError", "BaseException"}

IsExceptionSubclass(cls) == cls # "BaseException" /\ cls # "CancelledError"

\* An exception object: its class and who raised it.
Exc(cls, by) == [cls |-> cls, by |-> by]

\* How an awaited coroutine finishes.
Returned(v) == [kind |-> "return", value |-> v, exc |-> None]
Raised(e) == [kind |-> "raise", value |-> None, exc |-> e]

\* What a handler called with `body` does when it runs to its end: it returns
\* the body, None or an int, or it raises.
HandlerFinishes(body) ==
  {Returned(v) : v \in {body, None, "n7"}}
    \cup {Raised(Exc(c, "handler")) : c \in HandlerExcs}

\* What a suspended handler does when CancelledError is thrown into it:
\* let it propagate, swallow it and return, or raise something else.
CancelReactions(body) ==
  {Raised(Exc("CancelledError", "cancel"))} \cup HandlerFinishes(body)

VARIABLES
  consumers,        \* EventBus._consumers: address -> (handler, expected_return_type)
  listeners,        \* EventBus._listeners: topic -> list of handlers (a defaultdict)
  uuidCalls,        \* the number of uuid.uuid4() calls made so far
  defaultId,        \* the default of Message.id, evaluated when the class is defined
  consumerHandles,  \* the Consumer objects returned so far: their address (the
                    \* handler attribute is never read) and whether the entry
                    \* now at that address is the one they were returned for
  listenerHandles,  \* the Listener objects returned so far
  inflight,         \* the bag of request calls suspended in their handler
  publishes,        \* the bag of publish calls whose listener tasks are not all done
  last              \* what the most recent step was and what it gave its caller

vars == <<consumers, listeners, uuidCalls, defaultId, consumerHandles, listenerHandles,
          inflight, publishes, last>>

idVars == <<uuidCalls, defaultId>>
regVars == <<consumers, consumerHandles>>
lisVars == <<listeners, listenerHandles>>

NoConsumer == [present |-> FALSE]
NoList == [present |-> FALSE, list |-> <<>>]

(***************************************************************************)
(* EventBus.__init__ and the import of tinybus.models.                     *)
(***************************************************************************)
Init ==
  /\ consumers = [a \in Addresses |-> NoConsumer]
  /\ listeners = [t \in Topics |-> NoList]
  /\ defaultId = Uuid4(0)
  /\ uuidCalls = 1
  /\ consumerHandles = {}
  /\ listenerHandles = {}
  /\ inflight = EmptyBag
  /\ publishes = EmptyBag
  /\ last = [op |-> "init"]

(***************************************************************************)
(* The exceptions of tinybus.exceptions, as the bus constructs them.       *)
(***************************************************************************)
HandlerAlreadyRegisteredError(address) ==
  [cls |-> "HandlerAlreadyRegisteredError", by |-> "bus", address |-> address]

HandlerNotFoundError(address) ==
  [cls |-> "HandlerNotFoundError", by |-> "bus", address |-> address]

HandlerTimeoutError(address, timeout) ==
  [cls |-> "HandlerTimeoutError", by |-> "bus", address |-> address,
   timeout |-> timeout]

HandlerExecutionError(address, e) ==
  [cls |-> "HandlerExecutionError", by |-> "bus", address |-> address,
   original_error |-> e]

(***************************************************************************)
(* Registration of consumers.                                              *)
(***************************************************************************)
\* address in self._consumers
HasConsumer(address) == consumers[address].present

\* consumer without the check for an occupied address: the entry is replaced
consumer_Overwrite(address, handler) ==
  /\ consumers' = [consumers EXCEPT ![address] =
                     [present |-> TRUE, handler |-> handler,
                      expected |-> ReturnHint(handler)]]
  /\ consumerHandles' = {IF c.address = address THEN [c EXCEPT !.own = FALSE] ELSE c :
                           c \in consumerHandles}
                          \cup {[address |-> address, own |-> TRUE]}
  /\ last' = [op |-> "consumer", address |-> address,
              result |-> Returned("Consumer")]
  /\ UNCHANGED <<lisVars, idVars, inflight, publishes>>

\* EventBus.consumer
consumer(address, handler) ==
  IF HasConsumer(address)
  THEN /\ last' = [op |-> "consumer", address |-> address,
                   result |-> Raised(HandlerAlreadyRegisteredError(address))]
       /\ UNCHANGED <<regVars, lisVars, idVars, inflight, publishes>>
  ELSE /\ consumers' = [consumers EXCEPT ![address] =
                          [present |-> TRUE, handler |-> handler,
                           expected |-> ReturnHint(handler)]]
       /\ consumerHandles' = consumerHandles \cup {[address |-> address, own |-> TRUE]}
       /\ last' = [op |-> "consumer", address |-> address,
                   result |-> Returned("Consumer")]
       /\ UNCHANGED <<lisVars, idVars, inflight, publishes>>

\* self._consumers.pop(address, None)
ConsumersPop(address) == [consumers EXCEPT ![address] = NoConsumer]

\* EventBus.remove_consumer; `call` says who called it.  `removed` notes
\* whether the pop found an entry.
RemoveConsumer(address, call) ==
  /\ consumers' = ConsumersPop(address)
  /\ consumerHandles' = {IF c.address = address THEN [c EXCEPT !.own = FALSE] ELSE c :
                           c \in consumerHandles}
  /\ last' = call @@ [result |-> Returned(None), removed |-> HasConsumer(address)]
  /\ UNCHANGED <<lisVars, idVars, inflight, publishes>>

remove_consumer(address) == RemoveConsumer(address, [op |-> "remove_consumer"])

\* an unregister that removes the entry only while it is the handle's own
ConsumerUnregister_OwnOnly(c) ==
  /\ c \in consumerHandles
  /\ IF c.own
     THEN RemoveConsumer(c.address, [op |-> "Consumer.unregister", handle |-> c])
     ELSE /\ last' = [op |-> "Consumer.unregister", handle |-> c,
                      result |-> Returned(None), removed |-> FALSE]
          /\ UNCHANGED <<regVars, lisVars, idVars, inflight, publishes>>

\* Consumer.unregister, on the handle c
ConsumerUnregister(c) ==
  /\ c \in consumerHandles
  /\ RemoveConsumer(c.address, [op |-> "Consumer.unregister", handle |-> c])

\* list(self._consumers.keys()), as a set
ConsumerKeys == {a \in Addresses : consumers[a].present}

\* EventBus.get_consumers
get_consumers ==
  /\ last' = [op |-> "get_consumers", result |-> Returned("list"),
              keys |-> ConsumerKeys]
  /\ UNCHANGED <<regVars, lisVars, idVars, inflight, publishes>>

(***************************************************************************)
(* Message.create: the envelope request() builds.  The id field's default  *)
(* is the value str(uuid.uuid4()) had when the class body was executed.    *)
(***************************************************************************)
MessageCreate(body) ==
  [id |-> defaultId, body |-> body, reply_address |-> None]

(***************************************************************************)
(* await asyncio.wait_for(handler(msg), timeout=options.timeout).          *)
(* `end` is how the handler coroutine ended; when the deadline elapsed     *)
(* first, it is how the handler ended after CancelledError was thrown      *)
(* into it.  A CancelledError that comes out of the handler after the      *)
(* deadline is turned into TimeoutError; anything else passes through.     *)
(***************************************************************************)
WaitFor(end, elapsed) ==
  IF elapsed /\ end.kind = "raise" /\ end.exc.cls = "CancelledError"
  THEN Raised(Exc("TimeoutError", "wait_for"))
  ELSE end

\* the except clauses without `except Exception`: only timeouts are translated
RequestExcept_NoWrap(address, timeout, e) ==
  IF e.cls = "TimeoutError" THEN Raised(HandlerTimeoutError(address, timeout))
  ELSE Raised(e)

\* the except clauses reporting the default timeout instead of options.timeout
RequestExcept_DefaultTimeout(address, timeout, e) ==
  IF e.cls = "TimeoutError" THEN Raised(HandlerTimeoutError(address, DefaultTimeout))
  ELSE IF IsExceptionSubclass(e.cls) THEN Raised(HandlerExecutionError(address, e))
  ELSE Raised(e)

\* the except clauses of EventBus.request
RequestExcept(address, timeout, e) ==
  IF e.cls = "TimeoutError" THEN Raised(HandlerTimeoutError(address, timeout))
  ELSE IF IsExceptionSubclass(e.cls) THEN Raised(HandlerExecutionError(address, e))
  ELSE Raised(e)

\* the try block of EventBus.request, given what the await produced: the
\* isinstance check may raise itself, and so may the f-string of the
\* TypeError, which reads expected_return_type.__name__
RequestTry(address, expected, timeout, awaited) ==
  IF awaited.kind = "return"
  THEN IF expected = NoHint THEN Returned(awaited.value)
       ELSE IF IsInstanceRaises(expected)
       THEN RequestExcept(address, timeout, Exc("TypeError", "isinstance"))
       ELSE IF IsInstance(awaited.value, expected) THEN Returned(awaited.value)
       ELSE IF HasName(expected)
       THEN RequestExcept(address, timeout, Exc("TypeError", "request"))
       ELSE RequestExcept(address, timeout, Exc("AttributeError", "request"))
  ELSE RequestExcept(address, timeout, awaited.exc)

\* the record of a request call that finished
RequestDone(address, timeout, entry, msg, end, elapsed) ==
  [op |-> "request", address |-> address, timeout |-> timeout,
   handler |-> entry.handler, expected |-> entry.expected, msg |-> msg,
   end |-> end, elapsed |-> elapsed,
   result |-> RequestTry(address, entry.expected, timeout, WaitFor(end, elapsed))]

\* what a step of request adds to its record: the number of handler(msg)
\* calls the step made and, for the step that is the call of request, the
\* retry_attempts of its options
Called(n, options) == [calls |-> n, retries |-> OptionsRetryAttempts(options)]
Resumed == [calls |-> 0]

\* request without the lookup check: a missing address is a KeyError of the
\* dict read, raised before the try block
request_NoLookupCheck(address, message, options) ==
  IF ~HasConsumer(address)
  THEN /\ last' = [op |-> "request", address |-> address, handler |-> None,
                   result |-> Raised(Exc("KeyError", "dict"))] @@ Called(0, options)
       /\ UNCHANGED <<regVars, lisVars, idVars, inflight, publishes>>
  ELSE LET timeout == OptionsTimeout(options)
           entry == consumers[address]
           msg == MessageCreate(message)
       IN \/ \E end \in HandlerFinishes(message) :
               /\ last' = RequestDone(address, timeout, entry, msg, end, FALSE)
                            @@ Called(1, options)
               /\ UNCHANGED <<regVars, lisVars, idVars, inflight, publishes>>
          \/ /\ BagCardinality(inflight) < MaxInFlight
             /\ inflight' = inflight (+) SetToBag({[address |-> address,
                                timeout |-> timeout, entry |-> entry,
                                msg |-> msg]})
             /\ last' = [op |-> "request", address |-> address,
                         handler |-> entry.handler,
                         result |-> [kind |-> "pending"]] @@ Called(1, options)
             /\ UNCHANGED <<regVars, lisVars, idVars, publishes>>

\* a request that calls the handler again, options.retry_attempts times at
\* most, when the call failed: here the handler fails at once every time
request_Retrying(address, message, options) ==
  IF ~HasConsumer(address)
  THEN /\ last' = [op |-> "request", address |-> address, handler |-> None,
                   result |-> Raised(HandlerNotFoundError(address))]
                    @@ Called(0, options)
       /\ UNCHANGED <<regVars, lisVars, idVars, inflight, publishes>>
  ELSE LET timeout == OptionsTimeout(options)
           entry == consumers[address]
           msg == MessageCreate(message)
       IN \/ \E end \in HandlerFinishes(message) :
               /\ last' = RequestDone(address, timeout, entry, msg, end, FALSE)
                            @@ Called(IF end.kind = "raise"
                                      THEN 1 + OptionsRetryAttempts(options)
                                      ELSE 1, options)
               /\ UNCHANGED <<regVars, lisVars, idVars, inflight, publishes>>
          \/ /\ BagCardinality(inflight) < MaxInFlight
             /\ inflight' = inflight (+) SetToBag({[address |-> address,
                                timeout |-> timeout, entry |-> entry,
                                msg |-> msg]})
             /\ last' = [op |-> "request", address |-> address,
                         handler |-> entry.handler,
                         result |-> [kind |-> "pending"]] @@ Called(1, options)
             /\ UNCHANGED <<regVars, lisVars, idVars, publishes>>

(***************************************************************************)
(* EventBus.request, from the call to the handler's first suspension       *)
(* point, or to the end when the handler does not suspend, with fewer      *)
(* than cap request calls suspended.                                       *)
(***************************************************************************)
Request(address, message, options, cap) ==
  IF ~HasConsumer(address)
  THEN /\ last' = [op |-> "request", address |-> address, handler |-> None,
                   result |-> Raised(HandlerNotFoundError(address))]
                    @@ Called(0, options)
       /\ UNCHANGED <<regVars, lisVars, idVars, inflight, publishes>>
  ELSE LET timeout == OptionsTimeout(options)
           entry == consumers[address]
           msg == MessageCreate(message)
       IN \/ \E end \in HandlerFinishes(message) :
               /\ last' = RequestDone(address, timeout, entry, msg, end, FALSE)
                            @@ Called(1, options)
               /\ UNCHANGED <<regVars, lisVars, idVars, inflight, publishes>>
          \/ /\ BagCardinality(inflight) < cap
             /\ inflight' = inflight (+) SetToBag({[address |-> address,
                                timeout |-> timeout, entry |-> entry,
                                msg |-> msg]})
             /\ last' = [op |-> "request", address |-> address,
                         handler |-> entry.handler,
                         result |-> [kind |-> "pending"]] @@ Called(1, options)
             /\ UNCHANGED <<regVars, lisVars, idVars, publishes>>

request(address, message, options) ==
  Request(address, message, options, MaxInFlight)

\* a request that reads the table again when its handler has ended: the
\* expected type and the handler it reports are those now at the address
RequestResume_Refetch(r) ==
  /\ BagIn(r, inflight)
  /\ \E end \in HandlerFinishes(r.msg.body) :
       last' = RequestDone(r.address, r.timeout,
                           IF HasConsumer(r.address) THEN consumers[r.address]
                           ELSE r.entry,
                           r.msg, end, FALSE)
                 @@ Resumed
  /\ inflight' = inflight (-) SetToBag({r})
  /\ UNCHANGED <<regVars, lisVars, idVars, publishes>>

\* the handler of the suspended request r resumes before the deadline and ends
RequestResume(r) ==
  /\ BagIn(r, inflight)
  /\ \E end \in HandlerFinishes(r.msg.body) :
       last' = RequestDone(r.address, r.timeout, r.entry, r.msg, end, FALSE)
                 @@ Resumed
  /\ inflight' = inflight (-) SetToBag({r})
  /\ UNCHANGED <<regVars, lisVars, idVars, publishes>>

\* a deadline whose cancellation reaches every suspended request: the others
\* are gone with the one that timed out
RequestTimeout_CancelAll(r) ==
  /\ BagIn(r, inflight)
  /\ \E end \in CancelReactions(r.msg.body) :
       last' = RequestDone(r.address, r.timeout, r.entry, r.msg, end, TRUE)
                 @@ Resumed
  /\ inflight' = EmptyBag
  /\ UNCHANGED <<regVars, lisVars, idVars, publishes>>

\* the deadline of the suspended request r elapses: wait_for cancels the
\* handler and waits for it to end
RequestTimeout(r) ==
  /\ BagIn(r, inflight)
  /\ \E end \in CancelReactions(r.msg.body) :
       last' = RequestDone(r.address, r.timeout, r.entry, r.msg, end, TRUE)
                 @@ Resumed
  /\ inflight' = inflight (-) SetToBag({r})
  /\ UNCHANGED <<regVars, lisVars, idVars, publishes>>

(***************************************************************************)
(* The request/response side of the bus.                                   *)
(***************************************************************************)
NextReq ==
  \/ \E a \in Addresses, h \in Handlers : consumer(a, h)
  \/ \E a \in Addresses : remove_consumer(a)
  \/ \E c \in consumerHandles : ConsumerUnregister(c)
  \/ get_consumers
  \/ \E a \in Addresses, m \in Bodies, o \in DeliveryOptionsSet : request(a, m, o)
  \/ \E r \in BagToSet(inflight) : RequestResume(r)
  \/ \E r \in BagToSet(inflight) : RequestTimeout(r)

SpecReq == Init /\ [][NextReq]_vars

(***************************************************************************)
(* Registration of listeners.  self._listeners is a defaultdict(list):     *)
(* reading self._listeners[event] creates an empty list for a missing key. *)
(***************************************************************************)
\* event in self._listeners
HasTopic(event) == listeners[event].present

\* self._listeners after self._listeners[event] was evaluated
ListenersGet(event) ==
  [listeners EXCEPT ![event] = [present |-> TRUE, list |-> @.list]]

\* publish call p as it would be if it read the topic's list while it runs:
\* a handler registered on its topic meanwhile gets a task of it
WithLateTask(p, event, handler) ==
  IF p.event = event /\ ~p.returned
  THEN [p EXCEPT !.tasks = Append(@, [handler |-> handler, arg |-> p.body,
                                       state |-> "created"])]
  ELSE p

\* an on() seen by the publish calls in flight on the topic
Register_Live(event, handler, cap) ==
  /\ Len(listeners[event].list) < cap
  /\ listeners' = [listeners EXCEPT ![event] =
                     [present |-> TRUE, list |-> Append(@.list, handler)]]
  /\ listenerHandles' = listenerHandles \cup {[event |-> event, handler |-> handler]}
  /\ last' = [op |-> "on", event |-> event, handler |-> handler,
              result |-> Returned("Listener")]
  /\ publishes' = [q \in {WithLateTask(p, event, handler) : p \in BagToSet(publishes)}
                    |-> CopiesIn(CHOOSE p \in BagToSet(publishes) :
                                   WithLateTask(p, event, handler) = q, publishes)]
  /\ UNCHANGED <<regVars, idVars, inflight>>

\* an on() that registers a handler once: a handler already on the topic is
\* not added again
Register_Once(event, handler, cap) ==
  /\ Len(listeners[event].list) < cap
  /\ listeners' = [listeners EXCEPT ![event] =
                     [present |-> TRUE,
                      list |-> IF \E i \in DOMAIN @.list : @.list[i] = handler
                               THEN @.list ELSE Append(@.list, handler)]]
  /\ listenerHandles' = listenerHandles \cup {[event |-> event, handler |-> handler]}
  /\ last' = [op |-> "on", event |-> event, handler |-> handler,
              result |-> Returned("Listener")]
  /\ UNCHANGED <<regVars, idVars, inflight, publishes>>

\* EventBus.on, as a method or as a decorator applied to handler, on a
\* topic with fewer than cap registrations
Register(event, handler, cap) ==
  /\ Len(listeners[event].list) < cap
  /\ listeners' = [listeners EXCEPT ![event] =
                     [present |-> TRUE, list |-> Append(@.list, handler)]]
  /\ listenerHandles' = listenerHandles \cup {[event |-> event, handler |-> handler]}
  /\ last' = [op |-> "on", event |-> event, handler |-> handler,
              result |-> Returned("Listener")]
  /\ UNCHANGED <<regVars, idVars, inflight, publishes>>

on(event, handler) == Register(event, handler, MaxListeners)

\* the index of the first occurrence of x in list, 0 when there is none
IndexOf(list, x) ==
  IF \E i \in DOMAIN list : list[i] = x
  THEN CHOOSE i \in DOMAIN list : list[i] = x /\ \A j \in 1..(i - 1) : list[j] # x
  ELSE 0

\* list.remove(x), for x in list
ListRemove(list, x) ==
  [i \in 1..(Len(list) - 1) |->
     IF i < IndexOf(list, x) THEN list[i] ELSE list[i + 1]]

\* EventBus.remove_listener, called as `op`
RemoveListener(event, handler, op) ==
  /\ IF ~HasTopic(event)
     THEN /\ listeners' = listeners
          /\ last' = [op |-> op, result |-> Returned(None)]
     ELSE IF IndexOf(listeners[event].list, handler) = 0
     THEN /\ listeners' = listeners
          /\ last' = [op |-> op, result |-> Raised(Exc("ValueError", "list.remove"))]
     ELSE LET rest == ListRemove(listeners[event].list, handler)
          IN /\ listeners' = [listeners EXCEPT ![event] =
                                IF rest = <<>> THEN NoList
                                ELSE [present |-> TRUE, list |-> rest]]
             /\ last' = [op |-> op, result |-> Returned(None)]
  /\ UNCHANGED <<listenerHandles, regVars, idVars, inflight, publishes>>

remove_listener(event, handler) ==
  RemoveListener(event, handler, "remove_listener")

\* Listener.unregister, on the handle l
ListenerUnregister(l) ==
  /\ l \in listenerHandles
  /\ RemoveListener(l.event, l.handler, "Listener.unregister")

\* EventBus.get_listeners
get_listeners(event) ==
  /\ listeners' = ListenersGet(event)
  /\ last' = [op |-> "get_listeners", result |-> Returned("list"),
              list |-> listeners[event].list]
  /\ UNCHANGED <<listenerHandles, regVars, idVars, inflight, publishes>>

(***************************************************************************)
(* The table of listeners by itself, with room for a handler registered    *)
(* again after another one.                                                *)
(***************************************************************************)
NextLis ==
  \/ \E t \in Topics, l \in EventHandlers : Register(t, l, MaxRegistrations)
  \/ \E t \in Topics, l \in EventHandlers : remove_listener(t, l)
  \/ \E l \in listenerHandles : ListenerUnregister(l)
  \/ \E t \in Topics : get_listeners(t)

SpecLis == Init /\ [][NextLis]_vars

(***************************************************************************)
(* EventBus.publish.  asyncio.gather wraps each listener coroutine in a    *)
(* task; the tasks take their first step in the order they were created,   *)
(* before any of them is reported done.  Without return_exceptions, the    *)
(* first task that ends with an exception ends the gather with that        *)
(* exception and the other tasks keep running; otherwise the gather ends   *)
(* when every task is done.                                                *)
(***************************************************************************)
\* what a listener does when it runs: it ends normally or it raises
ListenerFinishes == {Returned(None), Raised(Exc("ValueError", "listener"))}

\* the listeners of list without repetitions, in the order of their first
\* registration
Distinct(list) ==
  LET keep == {i \in DOMAIN list : \A j \in 1..(i - 1) : list[j] # list[i]}
  IN [k \in 1..Cardinality(keep) |->
        list[CHOOSE i \in keep : Cardinality({j \in keep : j <= i}) = k]]

\* a gather over the distinct listeners: a handler registered twice gets one task
GatherTasks_Distinct(list, message) ==
  [i \in DOMAIN Distinct(list) |->
     [handler |-> Distinct(list)[i], arg |-> message, state |-> "created"]]

\* the tasks gather creates: listener(message) for listener in listeners
GatherTasks(list, message) ==
  [i \in DOMAIN list |-> [handler |-> list[i], arg |-> message, state |-> "created"]]

AllDone(tasks) == \A i \in DOMAIN tasks : tasks[i].state = "done"
AllStarted(tasks) == \A i \in DOMAIN tasks : tasks[i].state # "created"

\* gather's callback for a task that ended with `end`, given the tasks after it
GatherCallback(outer, tasks, end) ==
  IF outer # "pending" THEN outer
  ELSE IF end.kind = "raise" THEN "exc"
  ELSE IF AllDone(tasks) THEN "ok"
  ELSE "pending"

\* a publish call is forgotten once it returned and all its tasks are done
PublishesPut(bag, p) ==
  IF p.returned /\ AllDone(p.tasks) THEN bag ELSE bag (+) SetToBag({p})

\* a publish that joins a publish call already in flight on the topic
\* instead of invoking the listeners for itself
Publish_Coalesced(event, message, cap) ==
  /\ listeners' = ListenersGet(event)
  /\ IF listeners[event].list = <<>>
     THEN /\ last' = [op |-> "publish", result |-> Returned(None),
                      unfinished |-> 0]
          /\ UNCHANGED publishes
     ELSE IF \E p \in BagToSet(publishes) : p.event = event
     THEN /\ last' = [op |-> "publish", result |-> [kind |-> "pending"]]
          /\ UNCHANGED publishes
     ELSE /\ BagCardinality(publishes) < cap
          /\ publishes' = publishes (+) SetToBag({
               [event |-> event, body |-> message,
                tasks |-> GatherTasks(listeners[event].list, message),
                outer |-> "pending", returned |-> FALSE]})
          /\ last' = [op |-> "publish", result |-> [kind |-> "pending"]]
  /\ UNCHANGED <<listenerHandles, regVars, idVars, inflight>>

\* EventBus.publish, up to the await of the gather, with fewer than cap
\* publish calls in flight
Publish(event, message, cap) ==
  /\ listeners' = ListenersGet(event)
  /\ IF listeners[event].list = <<>>
     THEN /\ last' = [op |-> "publish", result |-> Returned(None),
                      unfinished |-> 0]
          /\ UNCHANGED publishes
     ELSE /\ BagCardinality(publishes) < cap
          /\ publishes' = publishes (+) SetToBag({
               [event |-> event, body |-> message,
                tasks |-> GatherTasks(listeners[event].list, message),
                outer |-> "pending", returned |-> FALSE]})
          /\ last' = [op |-> "publish", result |-> [kind |-> "pending"]]
  /\ UNCHANGED <<listenerHandles, regVars, idVars, inflight>>

publish(event, message) == Publish(event, message, MaxPublishes)

\* a gather that cancels the other tasks when one ends with an exception, as
\* asyncio.TaskGroup does: they are done without having run to their end
TaskEnds_CancelSiblings(p, i, end) ==
  LET tasks == [j \in DOMAIN p.tasks |->
                  IF j = i \/ end.kind = "raise"
                  THEN [p.tasks[j] EXCEPT !.state = "done"] ELSE p.tasks[j]]
  IN publishes' = PublishesPut(publishes (-) SetToBag({p}),
                    [p EXCEPT !.tasks = tasks,
                              !.outer = GatherCallback(p.outer, tasks, end)])

\* the task of publish call p's i-th listener ends with `end`
TaskEnds(p, i, end) ==
  LET tasks == [p.tasks EXCEPT ![i].state = "done"]
  IN publishes' = PublishesPut(publishes (-) SetToBag({p}),
                    [p EXCEPT !.tasks = tasks,
                              !.outer = GatherCallback(p.outer, tasks, end)])

\* a first step taken by any task that has not started, whatever its place
ListenerStart_AnyOrder(p, i) ==
  /\ BagIn(p, publishes)
  /\ i \in DOMAIN p.tasks
  /\ p.tasks[i].state = "created"
  /\ \/ \E end \in ListenerFinishes : TaskEnds(p, i, end)
     \/ publishes' = (publishes (-) SetToBag({p}))
                       (+) SetToBag({[p EXCEPT !.tasks[i].state = "suspended"]})
  /\ last' = [op |-> "listener"]
  /\ UNCHANGED <<lisVars, regVars, idVars, inflight>>

\* the i-th listener task of publish call p takes its first step
ListenerStart(p, i) ==
  /\ BagIn(p, publishes)
  /\ i \in DOMAIN p.tasks
  /\ p.tasks[i].state = "created"
  /\ \A j \in 1..(i - 1) : p.tasks[j].state # "created"
  /\ \/ \E end \in ListenerFinishes : TaskEnds(p, i, end)
     \/ publishes' = (publishes (-) SetToBag({p}))
                       (+) SetToBag({[p EXCEPT !.tasks[i].state = "suspended"]})
  /\ last' = [op |-> "listener"]
  /\ UNCHANGED <<lisVars, regVars, idVars, inflight>>

\* a suspended listener task of publish call p resumes and ends
ListenerResume(p, i) ==
  /\ BagIn(p, publishes)
  /\ i \in DOMAIN p.tasks
  /\ p.tasks[i].state = "suspended"
  /\ \E end \in ListenerFinishes : TaskEnds(p, i, end)
  /\ last' = [op |-> "listener"]
  /\ UNCHANGED <<lisVars, regVars, idVars, inflight>>

\* the publish coroutine resumes from the await of the gather
PublishReturn(p) ==
  /\ BagIn(p, publishes)
  /\ ~p.returned
  /\ p.outer # "pending"
  /\ AllStarted(p.tasks)
  /\ publishes' = PublishesPut(publishes (-) SetToBag({p}),
                               [p EXCEPT !.returned = TRUE])
  /\ last' = [op |-> "publish",
              result |-> IF p.outer = "ok" THEN Returned(None)
                         ELSE Raised(Exc("ValueError", "listener")),
              unfinished |-> Cardinality({i \in DOMAIN p.tasks :
                                            p.tasks[i].state # "done"})]
  /\ UNCHANGED <<lisVars, regVars, idVars, inflight>>

(***************************************************************************)
(* The publish/subscribe side of the bus.                                  *)
(***************************************************************************)
NextPub ==
  \/ \E t \in Topics, l \in EventHandlers : on(t, l)
  \/ \E t \in Topics, l \in EventHandlers : remove_listener(t, l)
  \/ \E l \in listenerHandles : ListenerUnregister(l)
  \/ \E t \in Topics : get_listeners(t)
  \/ \E t \in Topics, m \in Bodies : publish(t, m)
  \/ \E p \in BagToSet(publishes), i \in 1..MaxListeners : ListenerStart(p, i)
  \/ \E p \in BagToSet(publishes), i \in 1..MaxListeners : ListenerResume(p, i)
  \/ \E p \in BagToSet(publishes) : PublishReturn(p)

SpecPub == Init /\ [][NextPub]_vars

(***************************************************************************)
(* Several publish calls in flight at once on one topic.                   *)
(***************************************************************************)
NextFan ==
  \/ \E l \in EventHandlers : on("t1", l)
  \/ \E m \in Bodies : Publish("t1", m, MaxConcurrent)
  \/ \E p \in BagToSet(publishes), i \in 1..MaxListeners : ListenerStart(p, i)
  \/ \E p \in BagToSet(publishes), i \in 1..MaxListeners : ListenerResume(p, i)
  \/ \E p \in BagToSet(publishes) : PublishReturn(p)

SpecFan == Init /\ [][NextFan]_vars

(***************************************************************************)
(* Several request calls in flight at once, next to a publish call:        *)
(* handlers without and with a return annotation, one listener on one      *)
(* topic.                                                                  *)
(***************************************************************************)
NextIso ==
  \/ \E a \in Addresses, h \in {"h1", "h2"} : consumer(a, h)
  \/ on("t1", "l1")
  \/ publish("t1", "x")
  \/ \E p \in BagToSet(publishes), i \in 1..MaxListeners : ListenerStart(p, i)
  \/ \E p \in BagToSet(publishes), i \in 1..MaxListeners : ListenerResume(p, i)
  \/ \E p \in BagToSet(publishes) : PublishReturn(p)
  \/ \E a \in Addresses, m \in Bodies :
       Request(a, m, [given |-> FALSE], MaxTogether)
  \/ \E r \in BagToSet(inflight) : RequestResume(r)
  \/ \E r \in BagToSet(inflight) : RequestTimeout(r)

SpecIso == Init /\ [][NextIso]_vars

(***************************************************************************)
(* Publishing on a bus that also has consumers: registrations on both      *)
(* sides, publish calls and the steps of their listener tasks.             *)
(***************************************************************************)
NextMix ==
  \/ \E a \in Addresses, h \in Handlers : consumer(a, h)
  \/ \E t \in Topics, l \in EventHandlers : on(t, l)
  \/ \E t \in Topics, m \in Bodies : publish(t, m)
  \/ \E p \in BagToSet(publishes), i \in 1..MaxListeners : ListenerStart(p, i)
  \/ \E p \in BagToSet(publishes), i \in 1..MaxListeners : ListenerResume(p, i)
  \/ \E p \in BagToSet(publishes) : PublishReturn(p)

SpecMix == Init /\ [][NextMix]_vars

(***************************************************************************)
(* Properties.                                                             *)
(***************************************************************************)
\* the last step was a request call coming back to its caller
RequestFinished == last.op = "request" /\ last.result.kind # "pending"

\* ... after its handler was invoked
HandlerRan == RequestFinished /\ last.handler # None

\* the last step was a publish call coming back to its caller
PublishFinished == last.op = "publish" /\ last.result.kind # "pending"

\* this step is a request call: it runs from the call to the first
\* suspension of the handler, so no suspended request leaves `inflight`
RequestCalled ==
  /\ last'.op = "request"
  /\ BagCardinality(inflight') >= BagCardinality(inflight)

BusErrors == {"HandlerNotFoundError", "HandlerTimeoutError", "HandlerExecutionError"}

Cancelled == Raised(Exc("CancelledError", "cancel"))

\* C1: a publish call never comes back to its caller with an exception,
\* whatever its listeners do.
PublishNeverRaises == PublishFinished => last.result.kind = "return"

\* C2: when a publish call comes back to its caller, normally or with an
\* exception, every listener task it started is done.
PublishWaitsForAllListeners == PublishFinished => last.unfinished = 0

\* C3: remove_consumer, remove_listener, Consumer.unregister and
\* Listener.unregister never raise, in any state of the bus.
UnregistrationNeverFails ==
  last.op \in {"remove_consumer", "remove_listener", "Consumer.unregister",
               "Listener.unregister"}
    => last.result.kind = "return"

\* C4: Consumer.unregister removes an entry only when that entry is the one
\* the consumer() call that returned the handle created.
ConsumerHandleRevokesOwn ==
  (last.op = "Consumer.unregister" /\ last.removed) => last.handle.own

\* C5: the envelopes of two distinct request calls have different ids: the
\* envelope of a call that finished and the envelope of any call still in
\* flight, and the envelopes of any two calls in flight together.
EnvelopeIdsFresh ==
  /\ HandlerRan => \A r \in BagToSet(inflight) : r.msg.id # last.msg.id
  /\ \A r \in BagToSet(inflight) : CopiesIn(r, inflight) = 1
  /\ \A r1, r2 \in BagToSet(inflight) : r1 # r2 => r1.msg.id # r2.msg.id

\* C6: when the handler raises before the deadline, request fails with
\* HandlerExecutionError carrying the address and the very exception raised.
HandlerFailureWrapped ==
  (HandlerRan /\ ~last.elapsed /\ last.end.kind = "raise")
    => last.result = Raised(HandlerExecutionError(last.address, last.end.exc))

DuplicateConsumerRejected ==
  [][/\ (last'.op = "consumer" /\ HasConsumer(last'.address)) =>
          /\ last'.result = Raised(HandlerAlreadyRegisteredError(last'.address))
          /\ consumers' = consumers
          /\ ConsumerKeys' = ConsumerKeys
          /\ consumerHandles' = consumerHandles
     /\ (RequestCalled /\ HasConsumer(last'.address)) =>
          /\ last'.handler = consumers[last'.address].handler
          /\ last'.result.kind # "pending" =>
               last'.expected = consumers[last'.address].expected
          /\ \A r \in BagToSet(inflight') :
               CopiesIn(r, inflight') > CopiesIn(r, inflight) =>
                 r.address = last'.address /\ r.entry = consumers[last'.address]
    ]_vars

\* C9 witness: a second consumer() on an occupied address was rejected
DuplicateConsumerSeen ==
  /\ last.op = "consumer"
  /\ last.result.kind = "raise"
  /\ \E a \in Addresses : HasConsumer(a)

\* C10: request on an address without a consumer raises HandlerNotFound,
\* invokes no handler and changes nothing of the bus.
UnknownAddressNotFound ==
  [][(RequestCalled /\ ~HasConsumer(last'.address)) =>
       /\ last'.result = Raised(HandlerNotFoundError(last'.address))
       /\ last'.handler = None
       /\ UNCHANGED <<consumers, consumerHandles, listeners, inflight, publishes>>
    ]_vars

\* C10 witness: a request to an address without a consumer came back while
\* another address had one
UnknownAddressSeen ==
  /\ RequestFinished
  /\ last.handler = None
  /\ last.result.exc.cls = "HandlerNotFoundError"
  /\ \E a \in Addresses : HasConsumer(a)

\* the tasks of record p whose state differs in record q
ChangedTasks(p, q) == {i \in DOMAIN p.tasks : q.tasks[i].state # p.tasks[i].state}

\* record q is record p after one listener task of it took a step of its own
\* code: the task started and suspended, or started and ended, or resumed
\* and ended; every other task is as it was
OneTaskStepped(p, q) ==
  /\ q.event = p.event /\ q.body = p.body
  /\ DOMAIN q.tasks = DOMAIN p.tasks
  /\ \A i \in DOMAIN p.tasks :
        q.tasks[i].handler = p.tasks[i].handler /\ q.tasks[i].arg = p.tasks[i].arg
  /\ Cardinality(ChangedTasks(p, q)) = 1
  /\ \A i \in ChangedTasks(p, q) :
        <<p.tasks[i].state, q.tasks[i].state>> \in
          {<<"created", "suspended">>, <<"created", "done">>, <<"suspended", "done">>}

\* the tasks of record p that are not done
Unfinished(p) == {i \in DOMAIN p.tasks : p.tasks[i].state # "done"}

\* C11: a listener that raises takes nothing from the other listeners of the
\* same publish call: in every step, a publish call with listener tasks that
\* are not done stays on the bus, before and after a listener of it raised
\* and before and after publish came back to its caller, and it changes only
\* by one task taking a step of its own or by publish coming back; it leaves
\* only when its last task has run to its end.
SiblingsOfFailedListenerRun ==
  [][\A p \in BagToSet(publishes) :
       CopiesIn(p, publishes') < CopiesIn(p, publishes) =>
         \/ \E q \in BagToSet(publishes') :
              /\ CopiesIn(q, publishes') > CopiesIn(q, publishes)
              /\ \/ OneTaskStepped(p, q) /\ q.returned = p.returned
                 \/ q = [p EXCEPT !.returned = TRUE]
         \/ /\ BagCardinality(publishes') < BagCardinality(publishes)
            /\ \/ p.returned /\ Cardinality(Unfinished(p)) = 1
               \/ ~p.returned /\ Unfinished(p) = {}
    ]_vars

\* C11 witness: the last listener task of a publish call ran to its end after
\* publish had come back to its caller; publish comes back before all tasks
\* are done only when one of them raised
SiblingFinishedAfterFailure ==
  /\ last.op = "listener"
  /\ publishes = EmptyBag

\* record q entered the bag of publish calls in this step
Entered(q) == CopiesIn(q, publishes') > CopiesIn(q, publishes)

\* record p left the bag of publish calls in this step
Left(p) == CopiesIn(p, publishes') < CopiesIn(p, publishes)

\* C12: a publish call creates one invocation for each registration of its
\* topic, a handler registered k times getting k of them, each with the body
\* given to publish itself, and it invokes nothing else: no listener of another
\* topic is among them and no consumer is called.  Later steps add no
\* invocation to the call and start none of them a second time.
PublishInvokesEachRegistrationOnce ==
  [][\A q \in BagToSet(publishes') :
       Entered(q) =>
         IF BagCardinality(publishes') > BagCardinality(publishes)
         THEN /\ last'.op = "publish"
              /\ q.body \in Bodies
              /\ DOMAIN q.tasks = DOMAIN listeners[q.event].list
              /\ \A i \in DOMAIN q.tasks :
                    q.tasks[i] = [handler |-> listeners[q.event].list[i],
                                  arg |-> q.body, state |-> "created"]
              /\ UNCHANGED <<consumers, consumerHandles, inflight>>
         ELSE \E p \in BagToSet(publishes) :
                /\ Left(p)
                /\ \/ OneTaskStepped(p, q)
                   \/ q = [p EXCEPT !.returned = TRUE]
    ]_vars

\* C12 witness: a handler registered twice on a topic was invoked twice by
\* one publish call while another topic had a listener and an address had a
\* consumer
RegistrationsInvokedOnce ==
  \E p \in BagToSet(publishes) :
    /\ Len(p.tasks) = 2
    /\ p.tasks[1].handler = p.tasks[2].handler
    /\ AllStarted(p.tasks)
    /\ \E t \in Topics \ {p.event} : listeners[t].list # <<>>
    /\ \E a \in Addresses : HasConsumer(a)

\* C13: within one publish call the listeners are started in the order of
\* the topic's list, which is the order of registration: whenever a listener
\* of the call has started, every listener before it in the list has started
\* too, whether or not it has ended.
StartedInRegistrationOrder ==
  \A p \in BagToSet(publishes) :
    \A i, j \in DOMAIN p.tasks :
      (i < j /\ p.tasks[j].state # "created") => p.tasks[i].state # "created"

\* C13 witness: of two different listeners of a publish call, the one
\* registered later has ended while the one registered first, started before
\* it, is still suspended
LaterListenerEndedFirst ==
  \E p \in BagToSet(publishes) :
    /\ Len(p.tasks) = 2
    /\ p.tasks[1].handler # p.tasks[2].handler
    /\ p.tasks[1].state = "suspended"
    /\ p.tasks[2].state = "done"

\* C14: Consumer.unregister leaves the handle's address without a consumer;
\* an address without a consumer gets one only by a consumer() call on it;
\* while it has none, get_consumers does not list it and a request to it
\* raises HandlerNotFound without calling a handler.
UnregisteredAddressNotFound ==
  [][/\ last'.op = "Consumer.unregister" =>
          /\ ~consumers'[last'.handle.address].present
          /\ last'.handle.address \notin ConsumerKeys'
          /\ last'.result = Returned(None)
     /\ \A a \in Addresses :
          (~HasConsumer(a) /\ HasConsumer(a)') =>
             /\ last'.op = "consumer"
             /\ last'.address = a
             /\ last'.result.kind = "return"
     /\ last'.op = "get_consumers" =>
          last'.keys = {a \in Addresses : HasConsumer(a)}
     /\ (RequestCalled /\ ~HasConsumer(last'.address)) =>
          /\ last'.result = Raised(HandlerNotFoundError(last'.address))
          /\ last'.handler = None
    ]_vars

\* C14 witness: Consumer.unregister has just removed the consumer of its
\* address while the other address keeps one
ConsumerUnregistered ==
  /\ last.op = "Consumer.unregister"
  /\ last.removed
  /\ ~HasConsumer(last.handle.address)
  /\ \E a \in Addresses : HasConsumer(a)

\* list without its last element
Front(list) == SubSeq(list, 1, Len(list) - 1)

Satisfies(v, t) == t = "Any" \/ IsInstance(v, t)

\* the last step was a request call whose handler returned before the deadline
HandlerReturned == HandlerRan /\ ~last.elapsed /\ last.end.kind = "return"

\* C16: when a handler with a declared return type returns, within the
\* deadline, a value that is not of that type, request fails with
\* HandlerExecutionError carrying the TypeError request raises for the
\* invalid type, and the value does not come back.
TypeMismatchReported ==
  ( /\ HandlerReturned
    /\ last.expected # NoHint
    /\ ~Satisfies(last.end.value, last.expected) )
  => last.result = Raised(HandlerExecutionError(last.address,
                                                Exc("TypeError", "request")))

\* C17: when the handler returns v within the deadline and either it has no
\* return annotation or v has the shape the annotation declares, request
\* returns v itself, None included.
HandlerValueReturned ==
  ( /\ HandlerReturned
    /\ last.expected = NoHint \/ Satisfies(last.end.value, last.expected) )
  => last.result = Returned(last.end.value)

RECURSIVE InvocationsOf(_, _)
InvocationsOf(bag, records) ==
  IF records = {} THEN 0
  ELSE LET p == CHOOSE r \in records : TRUE
       IN CopiesIn(p, bag) * Len(p.tasks) + InvocationsOf(bag, records \ {p})

Invocations(bag) == InvocationsOf(bag, BagToSet(bag))

\* C19: publish calls in flight together do not share or lose invocations.
\* A publish on a topic with N registrations adds a call with exactly N
\* invocations of its own to the calls in flight, however many calls are in
\* flight on the topic already, and leaves those as they are; every later
\* step is a step of one listener of one call or the return of one call,
\* and a call leaves with all its invocations made.  So M calls made while
\* the topic has N registrations make M*N invocations.
ConcurrentPublishesIndependent ==
  [][/\ (last'.op = "publish" /\ last'.result.kind = "pending") =>
          \E q \in BagToSet(publishes') :
            /\ publishes' = publishes (+) SetToBag({q})
            /\ Len(q.tasks) = Len(listeners[q.event].list)
            /\ \A i \in DOMAIN q.tasks : q.tasks[i].state = "created"
            /\ Invocations(publishes') =
                 Invocations(publishes) + Len(listeners[q.event].list)
     /\ ~(last'.op = "publish" /\ last'.result.kind = "pending") =>
          \/ publishes' = publishes
          \/ \E p \in BagToSet(publishes) :
               \/ /\ publishes' = publishes (-) SetToBag({p})
                  /\ \/ p.returned /\ Cardinality(Unfinished(p)) = 1
                     \/ ~p.returned /\ Unfinished(p) = {}
               \/ \E q \in BagToSet(publishes') :
                    /\ publishes' = (publishes (-) SetToBag({p})) (+) SetToBag({q})
                    /\ \/ OneTaskStepped(p, q) /\ q.returned = p.returned
                       \/ q = [p EXCEPT !.returned = TRUE]
    ]_vars

\* C19 witness: two publish calls are in flight on a topic with two
\* registrations and all four invocations have started
TwoPublishesFourInvocations ==
  /\ BagCardinality(publishes) = 2
  /\ Invocations(publishes) = 4
  /\ \A p \in BagToSet(publishes) :
       /\ Len(p.tasks) = 2
       /\ AllStarted(p.tasks)
       /\ p.tasks = [i \in 1..2 |-> [p.tasks[i] EXCEPT !.handler = listeners[p.event].list[i]]]

\* C20: request fails with HandlerTimeout only when the deadline elapsed
\* before the handler ended; a handler that ends before the deadline, by
\* returning or by raising whatever exception, never makes request raise
\* HandlerTimeout.
TimeoutOnlyWhenDeadlineElapsed ==
  ( /\ RequestFinished
    /\ last.result.kind = "raise"
    /\ last.result.exc.cls = "HandlerTimeoutError" )
  => last.elapsed

\* C21: only registration and unregistration change the tables: a step of
\* request, of publish and its listener tasks, of get_consumers or of
\* get_listeners leaves _consumers and _listeners exactly as they were.
OnlyRegistrationChangesTables ==
  [][last'.op \in {"request", "publish", "listener", "get_consumers",
                   "get_listeners"}
       => UNCHANGED <<consumers, listeners>>
    ]_vars

\* C22: request calls in flight together are isolated.  The step that ends
\* a suspended call, by its handler ending or by its deadline, takes that
\* one call out of the calls in flight and leaves every other call in
\* flight and every publish call as they were; its outcome is what request
\* makes of the end of its own handler, called with its own body, under its
\* own address, timeout and expected type.  A call of request leaves the
\* calls in flight and the publish calls as they were, and steps of publish
\* calls and registrations leave the calls in flight alone.
RequestsIsolated ==
  [][/\ last'.op = "request" =>
          /\ publishes' = publishes
          /\ IF BagCardinality(inflight') >= BagCardinality(inflight)
             THEN /\ \A r \in BagToSet(inflight) :
                       CopiesIn(r, inflight') >= CopiesIn(r, inflight)
                  /\ IF last'.result.kind = "pending"
                     THEN \E q \in BagToSet(inflight') :
                            /\ inflight' = inflight (+) SetToBag({q})
                            /\ q.address = last'.address
                            /\ q.entry = consumers[q.address]
                     ELSE /\ inflight' = inflight
                          /\ last'.handler # None =>
                               /\ last'.end \in HandlerFinishes(last'.msg.body)
                               /\ last'.result =
                                    RequestTry(last'.address, last'.expected,
                                               last'.timeout, last'.end)
             ELSE \E r \in BagToSet(inflight) :
                    /\ inflight' = inflight (-) SetToBag({r})
                    /\ last'.address = r.address
                    /\ last'.msg = r.msg
                    /\ last'.handler = r.entry.handler
                    /\ last'.end \in CancelReactions(r.msg.body)
                    /\ last'.result =
                         RequestTry(r.address, r.entry.expected, r.timeout,
                                    WaitFor(last'.end, last'.elapsed))
     /\ last'.op \in {"publish", "listener", "on", "consumer"} =>
          inflight' = inflight
    ]_vars

\* C22 witness: a request has just failed with HandlerTimeout while a
\* request with another body is still suspended in its handler and a
\* listener of a publish call is suspended too
TimeoutNextToOthersInFlight ==
  /\ HandlerRan
  /\ last.elapsed
  /\ last.result.kind = "raise"
  /\ last.result.exc.cls = "HandlerTimeoutError"
  /\ \E r \in BagToSet(inflight) : r.msg.body # last.msg.body
  /\ \E p \in BagToSet(publishes) :
       \E i \in DOMAIN p.tasks : p.tasks[i].state = "suspended"

\* C23: on(topic, handler) succeeds and appends: it returns a Listener for
\* the topic and the handler, the topic's list is afterwards the list before
\* with the handler added at its end, also when the handler was in it
\* already, and the lists of the other topics, the consumers and the calls
\* in flight are as they were.
OnAppends ==
  [][last'.op = "on" =>
       /\ last'.result = Returned("Listener")
       /\ [event |-> last'.event, handler |-> last'.handler] \in listenerHandles'
       /\ listeners'[last'.event] =
            [present |-> TRUE,
             list |-> Append(listeners[last'.event].list, last'.handler)]
       /\ \A t \in Topics \ {last'.event} : listeners'[t] = listeners[t]
       /\ UNCHANGED <<consumers, consumerHandles, inflight, publishes>>
    ]_vars

\* C23 witness: on() has just registered a handler a second time on a topic,
\* on a bus that has a consumer and a listener on the other topic
RegisteredAgain ==
  /\ last.op = "on"
  /\ listeners[last.event].list = <<last.handler, last.handler>>
  /\ \E t \in Topics \ {last.event} : listeners[t].list # <<>>
  /\ \E a \in Addresses : HasConsumer(a)

\* the handlers a publish call invokes, in order
Invoked(p) == [i \in DOMAIN p.tasks |-> p.tasks[i].handler]

\* C24: publish works on the topic's list as it is when publish is called.
\* The call's invocations are the elements of that list; a registration or
\* an unregistration made while the call is in flight, on its topic or on
\* another, leaves every publish call in flight as it is; and a step of the
\* call itself keeps its invocations, whatever the topic's list has become.
PublishUsesListAtCall ==
  [][/\ last'.op \in {"on", "remove_listener", "Listener.unregister",
                       "get_listeners"}
          => publishes' = publishes
     /\ last'.op \in {"publish", "listener"} =>
          \A q \in BagToSet(publishes') :
            Entered(q) =>
              IF BagCardinality(publishes') > BagCardinality(publishes)
              THEN Invoked(q) = listeners[q.event].list
              ELSE \E p \in BagToSet(publishes) :
                     Left(p) /\ Invoked(q) = Invoked(p) /\ q.event = p.event
    ]_vars

\* C24 witness: a publish call in flight still has a listener to start and
\* the list of its topic is no longer the list it was called on
ListChangedDuringPublish ==
  \E p \in BagToSet(publishes) :
    /\ Invoked(p) # listeners[p.event].list
    /\ \E i \in DOMAIN p.tasks : p.tasks[i].state = "created"

\* C25: a request in flight keeps the handler and the expected type its
\* address had when it was called.  The call reads both in the step that
\* checks the address; registrations, unregistrations and get_consumers
\* leave the calls in flight as they are; and the step that ends a call
\* reports the handler it was called with and decides the outcome with the
\* expected type it was called with, whatever the address holds by then.
InFlightRequestKeepsEntry ==
  [][/\ last'.op \in {"consumer", "remove_consumer", "Consumer.unregister",
                       "get_consumers"}
          => inflight' = inflight
     /\ last'.op = "request" =>
          IF BagCardinality(inflight') >= BagCardinality(inflight)
          THEN \A q \in BagToSet(inflight') :
                 CopiesIn(q, inflight') > CopiesIn(q, inflight) =>
                   /\ q.address = last'.address
                   /\ HasConsumer(q.address)
                   /\ q.entry = consumers[q.address]
          ELSE \E r \in BagToSet(inflight) :
                 /\ inflight' = inflight (-) SetToBag({r})
                 /\ last'.address = r.address
                 /\ last'.handler = r.entry.handler
                 /\ last'.expected = r.entry.expected
                 /\ last'.result =
                      RequestTry(r.address, r.entry.expected, r.timeout,
                                 WaitFor(last'.end, last'.elapsed))
    ]_vars

\* C25 witness: a suspended request has just ended with the outcome of the
\* handler it was called with, after its address was given another handler
\* with which the outcome would have been another
EndedAfterReplacement ==
  /\ HandlerRan
  /\ last.calls = 0
  /\ HasConsumer(last.address)
  /\ consumers[last.address].handler # last.handler
  /\ last.result # RequestTry(last.address, consumers[last.address].expected,
                              last.timeout, WaitFor(last.end, last.elapsed))

=============================================================================
